---------------------------- MODULE Spec2Model ----------------------------
(***************************************************************************)
(* A model of project-tracker (src/src/main.rs): a command-line tracker    *)
(* that keeps a Vec<Project> in one JSON file.  Every invocation loads the *)
(* whole file, runs one command and, when the command changed the data,    *)
(* rewrites the whole file.                                                *)
(*                                                                         *)
(* The file is modelled as the sequence of its characters, a String as the *)
(* sequence of its characters, and serde_json's writer and reader as       *)
(* operators over such sequences.                                          *)
(***************************************************************************)
EXTENDS Integers, Sequences, FiniteSets, TLC

(***************************************************************************)
(* Characters.                                                             *)
(***************************************************************************)
QUOTE == "\""
BSLASH == "\\"
NL == "\n"
SP == " "

DigitChars == <<"0", "1", "2", "3", "4", "5", "6", "7", "8", "9">>

IsDigit(c) == \E d \in 1..10 : DigitChars[d] = c

DigitVal(c) == (CHOOSE d \in 1..10 : DigitChars[d] = c) - 1

(***************************************************************************)
(* u32, the type of Task.id and of the task_id argument.  TLC's integers   *)
(* are 32 bit signed, so a u32 is kept as two 16 bit limbs: the value of   *)
(* [hi |-> h, lo |-> l] is h * 65536 + l.                                  *)
(***************************************************************************)
Limb == 65536

U32(n) == [hi |-> n \div Limb, lo |-> n % Limb]

U32Max == [hi |-> Limb - 1, lo |-> Limb - 1]

U32Less(a, b) == a.hi < b.hi \/ (a.hi = b.hi /\ a.lo < b.lo)

\* a + 1 as the build computes it.  `wrapped` tells that the sum left the
\* type: a build with overflow checks panics there, one without yields 0.
U32Succ(a) ==
    IF a.lo < Limb - 1 THEN [val |-> [hi |-> a.hi, lo |-> a.lo + 1], wrapped |-> FALSE]
    ELSE IF a.hi < Limb - 1 THEN [val |-> [hi |-> a.hi + 1, lo |-> 0], wrapped |-> FALSE]
    ELSE [val |-> [hi |-> 0, lo |-> 0], wrapped |-> TRUE]

\* a * 10 + d, with `wrapped` when the result does not fit a u32.
U32MulAdd10(a, d) ==
    LET lo10 == a.lo * 10 + d
        hi10 == a.hi * 10 + (lo10 \div Limb)
    IN  [val |-> [hi |-> hi10 % Limb, lo |-> lo10 % Limb], wrapped |-> hi10 >= Limb]

\* a divided by 10: the quotient and the remainder.
U32DivMod10(a) ==
    LET mid == (a.hi % 10) * Limb + a.lo
    IN  [quot |-> [hi |-> a.hi \div 10, lo |-> mid \div 10], rem |-> mid % 10]

(***************************************************************************)
(* The data: Task, Project, Vec<Project>.                                  *)
(***************************************************************************)
Task(id, description, completed) ==
    [id |-> id, description |-> description, completed |-> completed]

Project(name, tasks) == [name |-> name, tasks |-> tasks]

(***************************************************************************)
(* serde_json::to_string_pretty on a Vec<Project>: two spaces per level,   *)
(* an empty array as "[]", the fields of a struct in declaration order,    *)
(* `"key": value`.                                                         *)
(***************************************************************************)
RECURSIVE Indent(_)
Indent(n) == IF n = 0 THEN <<>> ELSE <<SP, SP>> \o Indent(n - 1)

RECURSIVE EncodeU32(_)
EncodeU32(n) ==
    LET dm == U32DivMod10(n)
    IN  IF dm.quot = U32(0) THEN <<DigitChars[dm.rem + 1]>>
        ELSE EncodeU32(dm.quot) \o <<DigitChars[dm.rem + 1]>>

EncodeBool(b) ==
    IF b THEN <<"t", "r", "u", "e">> ELSE <<"f", "a", "l", "s", "e">>

\* A faulty variant of EscapeChar: the quote is written as it is.
EscapeChar_Raw(c) ==
    IF c = BSLASH THEN <<BSLASH, BSLASH>>
    ELSE IF c = NL THEN <<BSLASH, "n">>
    ELSE <<c>>

\* One character of a string literal: the quote, the backslash and the
\* line feed are written as two-character escapes.
EscapeChar(c) ==
    IF c = QUOTE THEN <<BSLASH, QUOTE>>
    ELSE IF c = BSLASH THEN <<BSLASH, BSLASH>>
    ELSE IF c = NL THEN <<BSLASH, "n">>
    ELSE <<c>>

RECURSIVE Escape(_)
Escape(s) == IF s = <<>> THEN <<>> ELSE EscapeChar(Head(s)) \o Escape(Tail(s))

EncodeString(s) == <<QUOTE>> \o Escape(s) \o <<QUOTE>>

KeyId == <<"i", "d">>
KeyDescription == <<"d", "e", "s", "c", "r", "i", "p", "t", "i", "o", "n">>
KeyCompleted == <<"c", "o", "m", "p", "l", "e", "t", "e", "d">>
KeyName == <<"n", "a", "m", "e">>
KeyTasks == <<"t", "a", "s", "k", "s">>

Field(level, key, value) ==
    Indent(level) \o EncodeString(key) \o <<":", SP>> \o value

EncodeTask(t, level) ==
    <<"{", NL>>
    \o Field(level + 1, KeyId, EncodeU32(t.id)) \o <<",", NL>>
    \o Field(level + 1, KeyDescription, EncodeString(t.description)) \o <<",", NL>>
    \o Field(level + 1, KeyCompleted, EncodeBool(t.completed)) \o <<NL>>
    \o Indent(level) \o <<"}">>

RECURSIVE EncodeTaskItems(_, _, _)
EncodeTaskItems(ts, i, level) ==
    IF i > Len(ts) THEN <<>>
    ELSE (IF i = 1 THEN <<NL>> ELSE <<",", NL>>)
         \o Indent(level) \o EncodeTask(ts[i], level)
         \o EncodeTaskItems(ts, i + 1, level)

EncodeTasks(ts, level) ==
    IF ts = <<>> THEN <<"[", "]">>
    ELSE <<"[">> \o EncodeTaskItems(ts, 1, level + 1)
         \o <<NL>> \o Indent(level) \o <<"]">>

EncodeProject(p, level) ==
    <<"{", NL>>
    \o Field(level + 1, KeyName, EncodeString(p.name)) \o <<",", NL>>
    \o Field(level + 1, KeyTasks, EncodeTasks(p.tasks, level + 1)) \o <<NL>>
    \o Indent(level) \o <<"}">>

RECURSIVE EncodeProjectItems(_, _)
EncodeProjectItems(ps, i) ==
    IF i > Len(ps) THEN <<>>
    ELSE (IF i = 1 THEN <<NL>> ELSE <<",", NL>>)
         \o Indent(1) \o EncodeProject(ps[i], 1)
         \o EncodeProjectItems(ps, i + 1)

to_string_pretty(data) ==
    IF data = <<>> THEN <<"[", "]">>
    ELSE <<"[">> \o EncodeProjectItems(data, 1) \o <<NL, "]">>

(***************************************************************************)
(* serde_json::from_str::<Vec<Project>>.  A parser returns Err, or Ok with *)
(* the value read and the index of the first character after it.  The map  *)
(* form of a struct is read, with its fields in any order; a document that *)
(* writes a struct as an array, names a field the structs do not have or   *)
(* uses an escape other than \", \\ and \n is outside what is modelled and *)
(* no such document is given to the model.                                 *)
(***************************************************************************)
Err == [ok |-> FALSE]

Ok(v, i) == [ok |-> TRUE, val |-> v, pos |-> i]

At(s, i, c) == i <= Len(s) /\ s[i] = c

IsWs(c) == c \in {SP, NL, "\t", "\r"}

RECURSIVE SkipWs(_, _)
SkipWs(s, i) == IF i <= Len(s) /\ IsWs(s[i]) THEN SkipWs(s, i + 1) ELSE i

Lit(s, i, w) == i + Len(w) - 1 <= Len(s) /\ SubSeq(s, i, i + Len(w) - 1) = w

\* The characters of a string literal after its opening quote.
RECURSIVE ParseStringBody(_, _, _)
ParseStringBody(s, i, acc) ==
    IF i > Len(s) THEN Err
    ELSE IF s[i] = QUOTE THEN Ok(acc, i + 1)
    ELSE IF s[i] = BSLASH THEN
        IF At(s, i + 1, QUOTE) THEN ParseStringBody(s, i + 2, Append(acc, QUOTE))
        ELSE IF At(s, i + 1, BSLASH) THEN ParseStringBody(s, i + 2, Append(acc, BSLASH))
        ELSE IF At(s, i + 1, "n") THEN ParseStringBody(s, i + 2, Append(acc, NL))
        ELSE Err
    ELSE IF s[i] \in {NL, "\t", "\r"} THEN Err
    ELSE ParseStringBody(s, i + 1, Append(acc, s[i]))

ParseString(s, i) == IF At(s, i, QUOTE) THEN ParseStringBody(s, i + 1, <<>>) ELSE Err

IsFraction(s, i) == i <= Len(s) /\ s[i] \in {".", "e", "E"}

RECURSIVE ParseDigits(_, _, _)
DigitsNext(s, i, n) == IF n.wrapped THEN Err ELSE ParseDigits(s, i + 1, n.val)

ParseDigits(s, i, acc) ==
    IF i <= Len(s) /\ IsDigit(s[i]) THEN DigitsNext(s, i, U32MulAdd10(acc, DigitVal(s[i])))
    ELSE IF IsFraction(s, i) THEN Err
    ELSE Ok(acc, i)

\* A u32: no sign, no leading zero, no fraction or exponent, at most U32Max.
ParseU32(s, i) ==
    IF i > Len(s) \/ ~IsDigit(s[i]) THEN Err
    ELSE IF s[i] = "0" THEN
        IF (i + 1 <= Len(s) /\ IsDigit(s[i + 1])) \/ IsFraction(s, i + 1) THEN Err
        ELSE Ok(U32(0), i + 1)
    ELSE ParseDigits(s, i, U32(0))

ParseBool(s, i) ==
    IF Lit(s, i, EncodeBool(TRUE)) THEN Ok(TRUE, i + 4)
    ELSE IF Lit(s, i, EncodeBool(FALSE)) THEN Ok(FALSE, i + 5)
    ELSE Err

\* The fields of a struct read so far: key -> value.
NoFields == [k \in {} |-> TRUE]

WithField(fs, k, v) == [x \in (DOMAIN fs) \cup {k} |-> IF x = k THEN v ELSE fs[x]]

\* The struct of the fields read, at its closing brace: every field of
\* the type must have been given.
BuildStruct(kind, fs, i) ==
    IF kind = "Task" THEN
        IF DOMAIN fs = {KeyId, KeyDescription, KeyCompleted}
        THEN Ok(Task(fs[KeyId], fs[KeyDescription], fs[KeyCompleted]), i)
        ELSE Err
    ELSE
        IF DOMAIN fs = {KeyName, KeyTasks}
        THEN Ok(Project(fs[KeyName], fs[KeyTasks]), i)
        ELSE Err

\* ParseItems(s, i, acc, kind): the elements of a Vec of `kind` after the
\* opening bracket, acc being those read.  ParseFields(s, i, fs, first,
\* kind): the fields of a struct of `kind` after the opening brace, fs being
\* those read and `first` holding until one is read.
RECURSIVE ParseItems(_, _, _, _)
RECURSIVE ParseFields(_, _, _, _, _)
FieldRead(s, fs, kind, key, v) ==
    IF ~v.ok THEN Err ELSE ParseFields(s, v.pos, WithField(fs, key, v.val), FALSE, kind)

\* The value of field `key` of a struct of `kind`, at j.
FieldValue(s, fs, kind, key, j) ==
    FieldRead(s, fs, kind, key,
        IF kind = "Task" /\ key = KeyId THEN ParseU32(s, j)
        ELSE IF kind = "Task" /\ key = KeyDescription THEN ParseString(s, j)
        ELSE IF kind = "Task" /\ key = KeyCompleted THEN ParseBool(s, j)
        ELSE IF kind = "Project" /\ key = KeyName THEN ParseString(s, j)
        ELSE IF kind = "Project" /\ key = KeyTasks /\ At(s, j, "[")
             THEN ParseItems(s, j + 1, <<>>, "Task")
        ELSE Err)

FieldColon(s, fs, kind, key, c) ==
    IF At(s, c, ":") THEN FieldValue(s, fs, kind, key, SkipWs(s, c + 1)) ELSE Err

FieldKey(s, fs, kind, k) ==
    IF ~k.ok THEN Err
    ELSE IF k.val \in DOMAIN fs THEN Err
    ELSE FieldColon(s, fs, kind, k.val, SkipWs(s, k.pos))

FieldsAt(s, i, fs, first, kind) ==
    IF At(s, i, "}") THEN BuildStruct(kind, fs, i + 1)
    ELSE IF ~first /\ ~At(s, i, ",") THEN Err
    ELSE FieldKey(s, fs, kind, ParseString(s, SkipWs(s, IF first THEN i ELSE i + 1)))

ParseFields(s, i, fs, first, kind) == FieldsAt(s, SkipWs(s, i), fs, first, kind)

ParseStruct(s, i, kind) ==
    IF At(s, i, "{") THEN ParseFields(s, i + 1, NoFields, TRUE, kind) ELSE Err

ItemRead(s, acc, kind, v) ==
    IF ~v.ok THEN Err ELSE ParseItems(s, v.pos, Append(acc, v.val), kind)

ItemsAt(s, i, acc, kind) ==
    IF At(s, i, "]") THEN Ok(acc, i + 1)
    ELSE IF acc # <<>> /\ ~At(s, i, ",") THEN Err
    ELSE ItemRead(s, acc, kind,
                  ParseStruct(s, SkipWs(s, IF acc = <<>> THEN i ELSE i + 1), kind))

ParseItems(s, i, acc, kind) == ItemsAt(s, SkipWs(s, i), acc, kind)

\* After the value: nothing but white space may follow.
EndOf(s, v) ==
    IF ~v.ok THEN Err
    ELSE IF SkipWs(s, v.pos) <= Len(s) THEN Err
    ELSE v

VecAt(s, i) == IF At(s, i, "[") THEN ParseItems(s, i + 1, <<>>, "Project") ELSE Err

\* The whole document: one array of projects.
from_str(s) == EndOf(s, VecAt(s, SkipWs(s, 1)))

(***************************************************************************)
(* The data file.  `exists` is whether the path names a file, `content`    *)
(* the characters in it.                                                   *)
(***************************************************************************)
NoFile == [exists |-> FALSE, content |-> <<>>]

FileOf(content) == [exists |-> TRUE, content |-> content]

\* OpenOptions read+write+create: the file is there afterwards, an absent
\* one as an empty file.
OpenCreate(f) == IF f.exists THEN f ELSE FileOf(<<>>)

\* OpenOptions write+truncate on a file that exists: its content is dropped.
OpenTruncate(f) == FileOf(<<>>)

\* write_all through a handle just opened: the bytes go to offset 0 and
\* what the file holds beyond them stays.
WriteAll(f, bytes) ==
    FileOf(bytes \o SubSeq(f.content, Len(bytes) + 1, Len(f.content)))

\* A faulty variant of Loaded: text that does not parse is taken for an
\* empty Vec (unwrap_or_default in place of expect).
Loaded_OrDefault(g, r) ==
    [file |-> g, ok |-> TRUE, data |-> IF r.ok THEN r.val ELSE <<>>]

\* load_data: the file after the open, and the Vec<Project> read, or the
\* panic of `expect` when the text does not parse.  An empty file is not
\* parsed.
Loaded(g, r) ==
    IF r.ok THEN [file |-> g, ok |-> TRUE, data |-> r.val]
    ELSE [file |-> g, ok |-> FALSE, msg |-> "Unable to parse data file."]

\* A faulty variant of ReadFile: the empty file is parsed like any other.
ReadFile_AlwaysParse(g) == Loaded(g, from_str(g.content))

ReadFile(g) == Loaded(g, IF g.content = <<>> THEN Ok(<<>>, 1) ELSE from_str(g.content))

load_data(f) == ReadFile(OpenCreate(f))

\* save_data: serialize, open with truncate (no create), write.
save_data(f, data) ==
    IF ~f.exists THEN [file |-> f, ok |-> FALSE, msg |-> "Unable to open data file."]
    ELSE [file |-> WriteAll(OpenTruncate(f), to_string_pretty(data)), ok |-> TRUE]

(***************************************************************************)
(* The commands, on the Vec<Project> that load_data returned.  Each gives  *)
(* what it prints (msg, lines), how it ends (status) and, in save, the     *)
(* Vec it hands to save_data: <<>> when it does not save, <<data>> when it *)
(* does.                                                                   *)
(***************************************************************************)
\* iter().find(|p| p.name == name): the index of the first match, or 0.
FindProject(data, name) ==
    IF \E i \in 1..Len(data) : data[i].name = name
    THEN CHOOSE i \in 1..Len(data) :
            data[i].name = name /\ \A j \in 1..(i - 1) : data[j].name # name
    ELSE 0

\* iter_mut().find(|t| t.id == task_id): the index of the first match, or 0.
FindTask(tasks, task_id) ==
    IF \E i \in 1..Len(tasks) : tasks[i].id = task_id
    THEN CHOOSE i \in 1..Len(tasks) :
            tasks[i].id = task_id /\ \A j \in 1..(i - 1) : tasks[j].id # task_id
    ELSE 0

Done(msg, lines) == [msg |-> msg, lines |-> lines, status |-> "ok", save |-> <<>>]

Saved(msg, data) == [msg |-> msg, lines |-> <<>>, status |-> "ok", save |-> <<data>>]

Panic(msg) == [msg |-> msg, lines |-> <<>>, status |-> "panic", save |-> <<>>]

\* A faulty variant of add_project: no look for the name.
add_project_NoCheck(data, name) ==
    Saved("Project added", Append(data, Project(name, <<>>)))

\* A faulty variant of add_project: the project is put first.
add_project_Front(data, name) ==
    IF \E i \in 1..Len(data) : data[i].name = name
    THEN Done("Project already exists.", <<>>)
    ELSE Saved("Project added", <<Project(name, <<>>)>> \o data)

add_project(data, name) ==
    IF \E i \in 1..Len(data) : data[i].name = name
    THEN Done("Project already exists.", <<>>)
    ELSE Saved("Project added", Append(data, Project(name, <<>>)))

list_projects(data) ==
    IF data = <<>> THEN Done("No projects found", <<>>)
    ELSE Done("Projects:", [i \in 1..Len(data) |-> data[i].name])

\* A faulty variant of add_task: the project is unwrapped, found or not.
add_task_Unwrap(data, project_name, description, checks) ==
    LET i == FindProject(data, project_name) IN
    IF i = 0 THEN Panic("called unwrap on a None value")
    ELSE LET tasks == data[i].tasks
             next == IF tasks = <<>> THEN [val |-> U32(1), wrapped |-> FALSE]
                     ELSE U32Succ(tasks[Len(tasks)].id)
         IN  IF next.wrapped /\ checks THEN Panic("attempt to add with overflow")
             ELSE Saved("Task added to project.",
                        [data EXCEPT ![i].tasks =
                            Append(tasks, Task(next.val, description, FALSE))])

\* A faulty variant of add_task: the task is put first.
add_task_Front(data, project_name, description, checks) ==
    LET i == FindProject(data, project_name) IN
    IF i = 0 THEN Done("Project not found.", <<>>)
    ELSE LET tasks == data[i].tasks
             next == IF tasks = <<>> THEN [val |-> U32(1), wrapped |-> FALSE]
                     ELSE U32Succ(tasks[Len(tasks)].id)
         IN  IF next.wrapped /\ checks THEN Panic("attempt to add with overflow")
             ELSE Saved("Task added to project.",
                        [data EXCEPT ![i].tasks =
                            <<Task(next.val, description, FALSE)>> \o tasks])

\* tasks.last().map_or(1, |t| t.id + 1): `checks` is whether the build
\* checks arithmetic overflow.
add_task(data, project_name, description, checks) ==
    LET i == FindProject(data, project_name) IN
    IF i = 0 THEN Done("Project not found.", <<>>)
    ELSE LET tasks == data[i].tasks
             next == IF tasks = <<>> THEN [val |-> U32(1), wrapped |-> FALSE]
                     ELSE U32Succ(tasks[Len(tasks)].id)
         IN  IF next.wrapped /\ checks THEN Panic("attempt to add with overflow")
             ELSE Saved("Task added to project.",
                        [data EXCEPT ![i].tasks =
                            Append(tasks, Task(next.val, description, FALSE))])

list_tasks(data, project_name) ==
    LET i == FindProject(data, project_name) IN
    IF i = 0 THEN Done("Project not found.", <<>>)
    ELSE Done("Tasks in project:",
              IF data[i].tasks = <<>> THEN <<"No tasks yet">> ELSE data[i].tasks)

\* A faulty variant of complete_task: no early return for a task that is
\* completed already.
complete_task_NoReturn(data, project_name, task_id) ==
    LET i == FindProject(data, project_name) IN
    IF i = 0 THEN Done("Project not found.", <<>>)
    ELSE LET j == FindTask(data[i].tasks, task_id) IN
         IF j = 0 THEN Done("Task not found in project.", <<>>)
         ELSE Saved("Task is now completed!",
                    [data EXCEPT ![i].tasks[j].completed = TRUE])

complete_task(data, project_name, task_id) ==
    LET i == FindProject(data, project_name) IN
    IF i = 0 THEN Done("Project not found.", <<>>)
    ELSE LET j == FindTask(data[i].tasks, task_id) IN
         IF j = 0 THEN Done("Task not found in project.", <<>>)
         ELSE IF data[i].tasks[j].completed THEN Done("Task is already completed!", <<>>)
         ELSE Saved("Task is now completed!",
                    [data EXCEPT ![i].tasks[j].completed = TRUE])

CompletedCount(tasks) == Cardinality({j \in 1..Len(tasks) : tasks[j].completed})

\* The bar of one project: (progress * 20).round() filled cells and
\* (progress * 100) cut to an integer, progress being completed / total.
bar_width == 20

Progress(tasks) ==
    LET total == Len(tasks)
        completed == CompletedCount(tasks)
    IN  IF total > 0
        THEN [filled |-> (2 * completed * bar_width + total) \div (2 * total),
              percentage |-> (completed * 100) \div total]
        ELSE [filled |-> 0, percentage |-> 0]

list_all_projects_and_tasks(data) ==
    IF data = <<>> THEN Done("No projects found.", <<>>)
    ELSE Done("Projects:",
              [i \in 1..Len(data) |->
                  [name |-> data[i].name,
                   progress |-> Progress(data[i].tasks),
                   tasks |-> data[i].tasks]])

(***************************************************************************)
(* One invocation of the program: main picks the command, the command      *)
(* loads, acts and saves.                                                  *)
(***************************************************************************)
Command(cmd, project, description, task_id) ==
    [cmd |-> cmd, project |-> project, description |-> description, task_id |-> task_id]

\* main's match on the subcommand, after the command's load_data.
Dispatch(data, c, checks) ==
    CASE c.cmd = "add-project" -> add_project(data, c.project)
      [] c.cmd = "list-projects" -> list_projects(data)
      [] c.cmd = "add-task" -> add_task(data, c.project, c.description, checks)
      [] c.cmd = "list-tasks" -> list_tasks(data, c.project)
      [] c.cmd = "complete-task" -> complete_task(data, c.project, c.task_id)
      [] c.cmd = "list-all" -> list_all_projects_and_tasks(data)

Outcome(c, r) ==
    [cmd |-> c.cmd, project |-> c.project, description |-> c.description,
     task_id |-> c.task_id, msg |-> r.msg, lines |-> r.lines, status |-> r.status]

\* What a run has done once its command returns from everything but
\* save_data: `l` is what load_data returned.  The result is the file, the
\* outcome, and the Vec the command is about to give to save_data (<<>>
\* when it saves nothing).
Decided(l, c, r) == [file |-> l.file, out |-> Outcome(c, r), save |-> r.save]

Decide(l, c, checks) ==
    IF l.ok THEN Decided(l, c, Dispatch(l.data, c, checks))
    ELSE Decided(l, c, Panic(l.msg))

\* The save_data of a run that decided d, and with it the end of the run.
Committed(d, w) ==
    IF w.ok THEN [d EXCEPT !.file = w.file]
    ELSE [file |-> w.file, out |-> [d.out EXCEPT !.msg = w.msg, !.status = "panic"],
          save |-> <<>>]

Commit(d) == IF d.save = <<>> THEN d ELSE Committed(d, save_data(d.file, d.save[1]))

Finish(l, c, checks) == Commit(Decide(l, c, checks))

(***************************************************************************)
(* The state.  file: the data file.  out: what the invocation that ended   *)
(* last printed and how it ended.  saved: the Vec<Project> of the          *)
(* save_data that wrote last, as <<data>>, or <<>> before any.  pc, req    *)
(* and mem belong to the invocations that run side by side: where each is, *)
(* its command line, and what its command left to save.                    *)
(***************************************************************************)
VARIABLES file, out, saved, pc, req, mem

vars == <<file, out, saved, pc, req, mem>>

\* The arguments given on the command line.
Names == {<<"A">>, <<"q", QUOTE>>}

Descriptions == {<<"x", BSLASH>>}

\* The tasks a store may hold in all: add-task is not run beyond it.
MaxTasks == 2

TaskIds == {U32(n) : n \in 0..MaxTasks}

None == <<>>

NoArg == <<>>

NoId == U32(0)

NoOutcome ==
    [cmd |-> "none", project |-> NoArg, description |-> NoArg, task_id |-> NoId,
     msg |-> "", lines |-> <<>>, status |-> "ok"]

Procs == {1, 2}

Idle == [p \in Procs |-> "idle"]

NoReq == [p \in Procs |-> Command("none", NoArg, NoArg, NoId)]

NoMem == [p \in Procs |-> None]

RECURSIVE TotalTasks(_)
TotalTasks(data) ==
    IF data = <<>> THEN 0 ELSE Len(Head(data).tasks) + TotalTasks(Tail(data))

\* One invocation run from start to end with no other in between, from
\* what its load_data returned.  (A bound set {e} names the value of e.)
Run(l, c, checks) ==
    /\ pc = Idle
    /\ \E r \in {Finish(l, c, checks)} :
          /\ r.save # None => TotalTasks(r.save[1]) <= MaxTasks
          /\ file' = r.file
          /\ out' = r.out
          /\ saved' = IF r.save = None THEN saved ELSE r.save
    /\ UNCHANGED <<pc, req, mem>>

AddProject ==
    \E l \in {load_data(file)} : \E name \in Names :
        Run(l, Command("add-project", name, NoArg, NoId), FALSE)

ListProjects ==
    \E l \in {load_data(file)} :
        Run(l, Command("list-projects", NoArg, NoArg, NoId), FALSE)

\* The only command with arithmetic: both kinds of build are followed.
AddTask ==
    \E l \in {load_data(file)} :
        \E project \in Names, description \in Descriptions, checks \in BOOLEAN :
            Run(l, Command("add-task", project, description, NoId), checks)

ListTasks ==
    \E l \in {load_data(file)} : \E project \in Names :
        Run(l, Command("list-tasks", project, NoArg, NoId), FALSE)

CompleteTask ==
    \E l \in {load_data(file)} : \E project \in Names, task_id \in TaskIds :
        Run(l, Command("complete-task", project, NoArg, task_id), FALSE)

ListAll ==
    \E l \in {load_data(file)} :
        Run(l, Command("list-all", NoArg, NoArg, NoId), FALSE)

Next ==
    \/ AddProject
    \/ ListProjects
    \/ AddTask
    \/ ListTasks
    \/ CompleteTask
    \/ ListAll

\* The first run: no data file yet.
Init ==
    /\ file = NoFile
    /\ out = NoOutcome
    /\ saved = None
    /\ pc = Idle
    /\ req = NoReq
    /\ mem = NoMem

Spec == Init /\ [][Next]_vars

(***************************************************************************)
(* The same program started on a data file it did not write itself: no     *)
(* file, an empty one, text that is not a Vec<Project>, and documents      *)
(* written by hand.                                                        *)
(***************************************************************************)
ProjectA == <<"A">>

\* A document cut short: the closing line of the array is missing.
Truncated ==
    LET doc == to_string_pretty(<<Project(ProjectA, <<>>)>>)
    IN  SubSeq(doc, 1, Len(doc) - 2)

\* A map where the array is expected: {}
WrongShape == <<"{", "}">>

\* A number where the name is expected: [{"name":1,"tasks":[]}]
InvalidType ==
    <<"[", "{">> \o EncodeString(KeyName) \o <<":", "1", ",">>
    \o EncodeString(KeyTasks) \o <<":", "[", "]", "}", "]">>

\* A project without its tasks: [{"name":"A"}]
MissingField ==
    <<"[", "{">> \o EncodeString(KeyName) \o <<":">> \o EncodeString(ProjectA)
    \o <<"}", "]">>

\* Only white space.
Blank == <<SP, NL>>

MalformedDocs == {Truncated, WrongShape, InvalidType, MissingField, Blank}

\* Written by hand, on one line and with the fields in another order:
\* [{"tasks":[{"completed":true,"id":2,"description":"x\\"}],"name":"A"}]
Compact ==
    <<"[", "{">> \o EncodeString(KeyTasks) \o <<":", "[", "{">>
    \o EncodeString(KeyCompleted) \o <<":">> \o EncodeBool(TRUE) \o <<",">>
    \o EncodeString(KeyId) \o <<":", "2", ",">>
    \o EncodeString(KeyDescription) \o <<":">> \o EncodeString(<<"x", BSLASH>>)
    \o <<"}", "]", ",">> \o EncodeString(KeyName) \o <<":">> \o EncodeString(ProjectA)
    \o <<"}", "]">>

\* A store whose last task has the largest id a u32 holds.
LastId == to_string_pretty(<<Project(ProjectA, <<Task(U32Max, <<"x", BSLASH>>, FALSE)>>)>>)

ValidDocs == {Compact, LastId}

InitialFiles == {NoFile, FileOf(<<>>)} \cup {FileOf(d) : d \in MalformedDocs \cup ValidDocs}

InitFile ==
    /\ file \in InitialFiles
    /\ out = NoOutcome
    /\ saved = None
    /\ pc = Idle
    /\ req = NoReq
    /\ mem = NoMem

SpecFile == InitFile /\ [][Next]_vars

(***************************************************************************)
(* Two invocations side by side on one data file.  Nothing locks the file, *)
(* so the steps of one run fall between those of the other: the load       *)
(* (open, read, parse, and the command up to its save), the open with      *)
(* truncate of save_data, and its write_all.                               *)
(***************************************************************************)
Started == [p \in Procs |-> "start"]

\* The store both start on: project A with one open task.
SharedStore == <<Project(ProjectA, <<Task(U32(1), <<"x", BSLASH>>, FALSE)>>)>>

ConcCommands ==
    {Command("add-project", <<"q", QUOTE>>, NoArg, NoId),
     Command("add-task", ProjectA, <<"x", BSLASH>>, NoId),
     Command("complete-task", ProjectA, NoArg, U32(1))}

\* load_data and the command, up to save_data's serialization.
CLoad(p) ==
    /\ pc[p] = "start"
    /\ \E checks \in BOOLEAN : \E d \in {Decide(load_data(file), req[p], checks)} :
          /\ file' = d.file
          /\ mem' = [mem EXCEPT ![p] = d]
          /\ pc' = [pc EXCEPT ![p] = IF d.save = None THEN "done" ELSE "open"]
          /\ out' = IF d.save = None THEN d.out ELSE out
    /\ UNCHANGED <<saved, req>>

\* save_data's OpenOptions::new().write(true).truncate(true).open().
COpen(p) ==
    /\ pc[p] = "open"
    /\ file' = OpenTruncate(file)
    /\ pc' = [pc EXCEPT ![p] = "write"]
    /\ UNCHANGED <<out, saved, req, mem>>

\* save_data's write_all, and the end of the run.
CWrite(p) ==
    /\ pc[p] = "write"
    /\ file' = WriteAll(file, to_string_pretty(mem[p].save[1]))
    /\ saved' = mem[p].save
    /\ out' = mem[p].out
    /\ pc' = [pc EXCEPT ![p] = "done"]
    /\ UNCHANGED <<req, mem>>

NextConc == \E p \in Procs : CLoad(p) \/ COpen(p) \/ CWrite(p)

InitConc ==
    /\ file = FileOf(to_string_pretty(SharedStore))
    /\ out = NoOutcome
    /\ saved = None
    /\ pc = Started
    /\ req \in [Procs -> ConcCommands]
    /\ mem = NoMem

SpecConc == InitConc /\ [][NextConc]_vars

(***************************************************************************)
(* What the file holds, as the next load_data would read it.  The formulas *)
(* below name the result of load_data once, as the one element of a set.   *)
(***************************************************************************)
Before == {load_data(file)}

After == {load_data(file')}

HasProject(data, name) == \E i \in 1..Len(data) : data[i].name = name

HasTask(data, project, task_id) ==
    \E i \in 1..Len(data) : \E j \in 1..Len(data[i].tasks) :
        data[i].name = project /\ data[i].tasks[j].id = task_id

\* k + 1 as a number, not as a u32: past U32Max it has no u32 to stand for it.
PlusOne(k) ==
    IF k.lo < Limb - 1 THEN [hi |-> k.hi, lo |-> k.lo + 1]
    ELSE [hi |-> k.hi + 1, lo |-> 0]

NothingDone == file' = file /\ saved' = saved

(***************************************************************************)
(* C1.  Starting from an empty store, after any sequence of invocations    *)
(* run one at a time, the stored Collection can be read, no two of its     *)
(* projects have the same name and no two tasks of one project the same    *)
(* id.                                                                     *)
(***************************************************************************)
UniqueNames(data) ==
    \A i, j \in 1..Len(data) : data[i].name = data[j].name => i = j

UniqueIds(tasks) ==
    \A i, j \in 1..Len(tasks) : tasks[i].id = tasks[j].id => i = j

ExpectedId(tasks) == IF tasks = <<>> THEN U32(1) ELSE PlusOne(tasks[Len(tasks)].id)

TaskAdded(before, after, project, description) ==
    \E i \in 1..Len(before) :
        /\ before[i].name = project
        /\ after = [before EXCEPT ![i].tasks =
               Append(@, Task(ExpectedId(before[i].tasks), description, FALSE))]

C2_AddTaskStep ==
    \A a \in Before :
        (out'.cmd = "add-task" /\ a.ok /\ HasProject(a.data, out'.project))
            => /\ out'.status = "ok"
               /\ \A b \in After :
                     b.ok /\ TaskAdded(a.data, b.data, out'.project, out'.description)

C2_AddTaskId == [][C2_AddTaskStep]_vars

(***************************************************************************)
(* C3.  complete-task on a task that is completed already leaves the file  *)
(* as it is and saves nothing, says that the task is completed already and *)
(* ends normally; so complete-task given twice on an open task leaves what *)
(* the first left.                                                         *)
(***************************************************************************)
IsCompleted(data, project, task_id) ==
    \E i \in 1..Len(data) : \E j \in 1..Len(data[i].tasks) :
        /\ data[i].name = project
        /\ data[i].tasks[j].id = task_id
        /\ data[i].tasks[j].completed

C3_AgainStep ==
    out'.cmd = "complete-task" =>
        \A a \in Before :
            (a.ok /\ IsCompleted(a.data, out'.project, out'.task_id))
                => /\ NothingDone
                   /\ out'.msg = "Task is already completed!"
                   /\ out'.status = "ok"

C3_TwiceStep ==
    (/\ out.cmd = "complete-task" /\ out.msg = "Task is now completed!"
     /\ out'.cmd = "complete-task"
     /\ out'.project = out.project /\ out'.task_id = out.task_id)
        => /\ NothingDone
           /\ out'.msg = "Task is already completed!"

C3_CompleteIdempotent == [][C3_AgainStep /\ C3_TwiceStep]_vars

\* complete-task has just found its task completed, in a store that holds
\* it so.
C3_Witness ==
    /\ out.cmd = "complete-task"
    /\ out.msg = "Task is already completed!"
    /\ \E l \in Before : l.ok /\ IsCompleted(l.data, out.project, out.task_id)

(***************************************************************************)
(* C4.  The domain outcomes change nothing and end normally: add-project   *)
(* with a name the store has, add-task, list-tasks and complete-task with  *)
(* a project the store has not, complete-task with an id the project has   *)
(* not.  Nothing is saved and the text of the file stays, so that the      *)
(* store read afterwards is the one read before.                           *)
(***************************************************************************)
DomainOutcome(data, o) ==
    \/ o.cmd = "add-project" /\ HasProject(data, o.project)
    \/ o.cmd \in {"add-task", "list-tasks", "complete-task"} /\ ~HasProject(data, o.project)
    \/ o.cmd = "complete-task" /\ HasProject(data, o.project)
          /\ ~HasTask(data, o.project, o.task_id)

C4_DomainStep ==
    \A a \in Before :
        (a.ok /\ DomainOutcome(a.data, out'))
            => /\ out'.status = "ok"
               /\ file'.exists
               /\ file'.content = file.content
               /\ saved' = saved

C4_DomainOutcomes == [][C4_DomainStep]_vars

\* complete-task has just missed its task in a project the store has.
C4_Witness ==
    /\ out.cmd = "complete-task"
    /\ out.msg = "Task not found in project."
    /\ \E l \in Before :
          l.ok /\ HasProject(l.data, out.project) /\ ~HasTask(l.data, out.project, out.task_id)

(***************************************************************************)
(* C5.  Round trip: the Collection c the store holds is read back from its *)
(* own serialization, from_str(to_string_pretty(c)) = c, order kept; and   *)
(* after a save_data(c) the file reads as c.                               *)
(***************************************************************************)
RoundTrip(c) == \A r \in {from_str(to_string_pretty(c))} : r.ok /\ r.val = c

C5_RoundTrip ==
    \A l \in Before :
        /\ l.ok
        /\ RoundTrip(l.data)
        /\ saved # None => l.data = saved[1]

\* A saved store of two projects, one named with a quote, one holding a
\* task whose description has a backslash.
C5_Witness ==
    /\ saved # None
    /\ Len(saved[1]) = 2
    /\ \E i \in 1..2 : saved[1][i].name = <<"q", QUOTE>>
    /\ \E i \in 1..2 : saved[1][i].tasks # <<>>

(***************************************************************************)
(* C6.  With no data file, or an empty one, no command panics: load_data   *)
(* gives the empty Vec and leaves an empty file where there was none, and  *)
(* add-project leaves a store of exactly that project.                     *)
(***************************************************************************)
FirstRun == ~file.exists \/ file.content = <<>>

C6_FirstRunStep ==
    FirstRun
        => /\ out'.status = "ok"
           /\ file'.exists
           /\ IF out'.cmd = "add-project"
              THEN \A b \in After : b.ok /\ b.data = <<Project(out'.project, <<>>)>>
              ELSE file'.content = <<>>

C6_FirstRun == [][C6_FirstRunStep]_vars

\* add-project has just run on an empty store.
C6_Witness ==
    /\ out.cmd = "add-project"
    /\ out.msg = "Project added"
    /\ \E l \in Before : l.ok /\ l.data = <<Project(out.project, <<>>)>>

(***************************************************************************)
(* C7.  With text in the file that is not a Vec<Project>, every command    *)
(* panics in load_data: nothing is saved and the file stays as it is.      *)
(***************************************************************************)
Malformed == file.exists /\ file.content \in MalformedDocs

C7_MalformedStep ==
    Malformed
        => /\ out'.status = "panic"
           /\ out'.msg = "Unable to parse data file."
           /\ NothingDone

C7_MalformedAborts == [][C7_MalformedStep]_vars

\* add-project has just panicked on a file that is not a Vec<Project>.
C7_Witness ==
    /\ Malformed
    /\ out.cmd = "add-project"
    /\ out.status = "panic"

(***************************************************************************)
(* C8.  When two runs that save overlap, the last writer wins: once both   *)
(* have ended, the store is the Collection of the save_data that wrote     *)
(* last.                                                                   *)
(***************************************************************************)
BothSaved == \A p \in Procs : pc[p] = "done" /\ mem[p].save # None

C8_LastWriterWins ==
    BothSaved => \A l \in Before : l.ok /\ l.data = saved[1]

(***************************************************************************)
(* C9.  From an empty store, in every project with a task the last task    *)
(* has the largest id: no task of the project has an id above it, so the   *)
(* last id plus one is the largest id plus one.                            *)
(***************************************************************************)
LastIsMax(tasks) ==
    \A j \in 1..Len(tasks) : ~U32Less(tasks[Len(tasks)].id, tasks[j].id)

SameButFlag(t, u) == u.id = t.id /\ u.description = t.description

TasksExtend(ts, us) ==
    /\ Len(ts) <= Len(us)
    /\ \A j \in 1..Len(ts) : SameButFlag(ts[j], us[j]) /\ (ts[j].completed => us[j].completed)

Extends(a, b) ==
    /\ Len(a) <= Len(b)
    /\ \A i \in 1..Len(a) : b[i].name = a[i].name /\ TasksExtend(a[i].tasks, b[i].tasks)

OneTaskAppended(a, b, o) ==
    \E i \in 1..Len(a) :
        /\ a[i].name = o.project
        /\ \E id \in {b[i].tasks[j].id : j \in 1..Len(b[i].tasks)} :
              b = [a EXCEPT ![i].tasks = Append(@, Task(id, o.description, FALSE))]

OneFlagSet(a, b, o) ==
    \E i \in 1..Len(a) : \E j \in 1..Len(a[i].tasks) :
        /\ a[i].name = o.project
        /\ a[i].tasks[j].id = o.task_id
        /\ ~a[i].tasks[j].completed
        /\ b = [a EXCEPT ![i].tasks[j].completed = TRUE]

ByCommand(a, b, o) ==
    CASE o.cmd = "add-project" -> b = a \/ b = Append(a, Project(o.project, <<>>))
      [] o.cmd = "add-task" -> b = a \/ OneTaskAppended(a, b, o)
      [] o.cmd = "complete-task" -> b = a \/ OneFlagSet(a, b, o)
      [] OTHER -> FALSE

\* A step that leaves the text of the file leaves the store.
C10_ExtendStep ==
    file'.content # file.content =>
        \A a \in Before : \A b \in After :
            a.ok /\ b.ok /\ Extends(a.data, b.data) /\ ByCommand(a.data, b.data, out')

C10_OnlyExtends == [][C10_ExtendStep]_vars

\* complete-task has just set the flag of the second task of a project.
C10_Witness ==
    /\ out.cmd = "complete-task"
    /\ out.msg = "Task is now completed!"
    /\ \E l \in Before : l.ok /\ \E i \in 1..Len(l.data) :
          Len(l.data[i].tasks) = 2 /\ l.data[i].tasks[2].completed

=============================================================================
